---- MODULE Spec2Model ----
(***************************************************************************)
(* A model of the lsh shell of src/main.c: the history store, the          *)
(* completion engine, the raw-mode line editor and the command dispatcher. *)
(*                                                                         *)
(* A C string is a sequence of one-character strings.  The edit buffer is  *)
(* modelled as memory: a sequence of cells, each a character, NUL, or      *)
(* UNINIT (a byte malloc/realloc handed out and nobody wrote yet).  Cells  *)
(* beyond bufsize are bytes written past the end of the allocation.        *)
(*                                                                         *)
(* The three capacities of the program are scaled down so that the cases   *)
(* at and beyond them are reachable; the relations between them and the    *)
(* data are those of the source (every builtin name and directory entry is *)
(* shorter than LSH_RL_BUFSIZE, the builtin table is smaller than          *)
(* LSH_TOK_BUFSIZE, history_load's read buffer is as large as the edit     *)
(* buffer's initial size).                                                 *)
(***************************************************************************)
EXTENDS Integers, Sequences, FiniteSets, TLC

\* main.c:9    #define HISTORY_MAX 1000      (scaled)
HISTORY_MAX == 2
\* main.c:79   #define LSH_RL_BUFSIZE 1024   (scaled; longest builtin name is 7)
LSH_RL_BUFSIZE == 8
\* main.c:183  #define LSH_TOK_BUFSIZE 64    (scaled; the builtin table has 12 names)
LSH_TOK_BUFSIZE == 16
\* main.c:554  char buffer[1024] of history_load (scaled like LSH_RL_BUFSIZE)
LOAD_BUFSIZE == 8

-----------------------------------------------------------------------------
(* Bytes and strings *)

NUL == "NUL"
UNINIT == "UNINIT"
EOF == "EOF"
ESC == "ESC"
NL == "\n"
TAB == "\t"
DEL == "DEL"
CR == "\r"
BEL == "BEL"

\* The int getchar() returns for each input value the model reads.
Ord(c) ==
  CASE c = EOF -> 0 - 1
    [] c = TAB -> 9
    [] c = NL  -> 10
    [] c = CR  -> 13
    [] c = ESC -> 27
    [] c = " " -> 32
    [] c = "A" -> 65
    [] c = "B" -> 66
    [] c = "[" -> 91
    [] c = DEL -> 127
    [] OTHER   -> 97

IsChar(x) == x # NUL /\ x # UNINIT

\* strncmp(partial, name, strlen(partial)) == 0
PrefixMatch(partial, name) ==
  /\ Len(partial) <= Len(name)
  /\ \A i \in 1..Len(partial) : name[i] = partial[i]

RECURSIVE Concat(_)
Concat(ss) == IF ss = <<>> THEN <<>> ELSE Head(ss) \o Concat(Tail(ss))

\* Index of the first element of s that is in set D, or Len(s)+1 (strcspn + 1).
RECURSIVE FirstIn(_, _, _)
FirstIn(s, D, i) ==
  IF i > Len(s) THEN i
  ELSE IF s[i] \in D THEN i ELSE FirstIn(s, D, i + 1)

-----------------------------------------------------------------------------
(* History store: main.c 508-560 *)

history_add_noevict(h, command) == Append(h, command)

\* history_add: at capacity commands[1..count-1] shift down over commands[0],
\* then the copy of command is stored at the end.
history_add(h, command) ==
  IF Len(h) >= HISTORY_MAX
  THEN Append(SubSeq(h, 2, Len(h)), command)
  ELSE Append(h, command)

\* history_save: fprintf("%s\n") of every entry, oldest first.
history_save(h) == Concat([i \in 1..Len(h) |-> Append(h[i], NL)])

\* fgets(buffer, n, fp) with the file position at off (1-based): at most n-1
\* characters, stopping after a newline.  Only called with off <= Len(file).
fgets(file, off, n) ==
  LET nl  == FirstIn(file, {NL}, off)
      lim == off + (n - 1) - 1
      end == IF nl <= lim THEN (IF nl <= Len(file) THEN nl ELSE Len(file))
             ELSE (IF lim <= Len(file) THEN lim ELSE Len(file))
  IN SubSeq(file, off, end)

\* The strings history_load hands to history_add, in order: each fgets chunk
\* cut at its first newline (buffer[strcspn(buffer, "\n")] = 0).
RECURSIVE LoadLines(_, _)
LoadLines(file, off) ==
  IF off > Len(file) THEN <<>>
  ELSE LET chunk == fgets(file, off, LOAD_BUFSIZE)
           cut   == SubSeq(chunk, 1, FirstIn(chunk, {NL}, 1) - 1)
       IN <<cut>> \o LoadLines(file, off + Len(chunk))

RECURSIVE AddAll(_, _)
AddAll(h, ls) == IF ls = <<>> THEN h ELSE AddAll(history_add(h, Head(ls)), Tail(ls))

\* history_load into store h from a file that exists.
history_load(h, file) == AddAll(h, LoadLines(file, 1))

-----------------------------------------------------------------------------
(* Builtin table: main.c 263-295 *)

builtin_str ==
  << <<"c","d">>,
     <<"h","e","l","p">>,
     <<"e","x","i","t">>,
     <<"l","s">>,
     <<"p","w","d">>,
     <<"c","l","e","a","r">>,
     <<"h","i","s","t","o","r","y">>,
     <<"c","a","t">>,
     <<"g","r","e","p">>,
     <<"t","o","u","c","h">>,
     <<"e","c","h","o">>,
     <<"r","m">> >>

lsh_num_builtins == Len(builtin_str)

-----------------------------------------------------------------------------
(* Completion engine: main.c 572-607 *)

\* No open directory stream: opendir(".") returned NULL.
NoDir == "NoDir"

\* The readdir loop: an entry is read, then the loop stops once count has
\* reached LSH_TOK_BUFSIZE; a matching entry is stored at completions[count++].
RECURSIVE DirLoop(_, _, _)
DirLoop(partial, d, acc) ==
  IF d = <<>> \/ ~(Len(acc) < LSH_TOK_BUFSIZE) THEN acc
  ELSE DirLoop(partial, Tail(d),
               IF PrefixMatch(partial, Head(d)) THEN Append(acc, Head(d)) ELSE acc)

\* get_completions(partial) with directory listing d: the candidates stored
\* in completions[0..count-1].  completions has LSH_TOK_BUFSIZE slots, and
\* the sentinel is stored at completions[count].
get_completions(partial, d) ==
  DirLoop(partial, d, SelectSeq(builtin_str, LAMBDA n : PrefixMatch(partial, n)))

\* The sentinel store completions[count] = NULL lands outside the array.
SentinelOutOfBounds(cands) == Len(cands) >= LSH_TOK_BUFSIZE

-----------------------------------------------------------------------------
(* Tokenizer: main.c 183-216 *)

\* " \t\r\n\a"
LSH_TOK_DELM == {" ", TAB, CR, NL, BEL}

SkipDelims_none(s, i) == i

\* First index >= i of s holding a non-delimiter, or Len(s)+1.
RECURSIVE SkipDelims(_, _)
SkipDelims(s, i) ==
  IF i > Len(s) THEN i
  ELSE IF s[i] \in LSH_TOK_DELM THEN SkipDelims(s, i + 1) ELSE i

\* The strtok loop from offset i with the tokens stored so far and the
\* array's size: [tokens, bufsize, oob], oob when a store fell outside.
RECURSIVE SplitLoop(_, _, _, _, _)
SplitLoop(s, i, toks, bs, oob) ==
  LET start == SkipDelims(s, i)
      end   == FirstIn(s, LSH_TOK_DELM, start)
  IN IF start > Len(s)
     THEN [tokens |-> toks, bufsize |-> bs, oob |-> oob \/ Len(toks) >= bs]
     ELSE LET toks2 == Append(toks, SubSeq(s, start, end - 1))
              bs2   == IF Len(toks2) >= bs THEN bs + LSH_TOK_BUFSIZE ELSE bs
          IN SplitLoop(s, end + 1, toks2, bs2, oob \/ Len(toks) >= bs)

lsh_split_line(s) == SplitLoop(s, 1, <<>>, LSH_TOK_BUFSIZE, FALSE)

-----------------------------------------------------------------------------
(* Dispatcher: main.c 490-505 *)

\* Index of the first builtin whose name equals args[0], or 0.
BuiltinIndex(args) ==
  LET hits == {i \in 1..lsh_num_builtins : builtin_str[i] = args[1]}
  IN IF hits = {} THEN 0 ELSE CHOOSE i \in hits : \A j \in hits : i <= j

BuiltinStatus_allcontinue(i) == 1

\* The value a builtin returns: each returns 1 but lsh_exit (main.c 327-330).
BuiltinStatus(i) == IF builtin_str[i] = <<"e","x","i","t">> THEN 0 ELSE 1

-----------------------------------------------------------------------------
(* Edit buffer memory: main.c 82-84, 108, 117, 133, 145, 162, 169-171 *)

Cells(n) == [i \in 1..n |-> UNINIT]

\* buffer[idx] = v, idx counted from 0.
WriteAt(mem, idx, v) ==
  LET m == IF idx + 1 > Len(mem) THEN mem \o Cells(idx + 1 - Len(mem)) ELSE mem
  IN [m EXCEPT ![idx + 1] = v]

\* strcpy(buffer, s): the characters of s and the terminator, from cell 0;
\* the cells behind the terminator keep what they held.  The result is
\* longer than the allocation when s does not fit.
strcpy(mem, s) == Append(s, NUL) \o SubSeq(mem, Len(s) + 2, Len(mem))

realloc_fresh(mem, n) == Cells(n)

\* realloc(buffer, n): the old cells, then fresh ones.
realloc(mem, n) == mem \o Cells(n - Len(mem))


\* What a byte-by-byte read of an uninitialized cell, or of the bytes behind
\* the allocation, can add to a string before a zero byte is met.
Garbage == {<<>>, <<"c">>}

\* The strings a read of the C string at buffer can yield: the characters up
\* to the first NUL; if an uninitialized cell or the end of the allocation
\* comes first, whatever the bytes there happen to hold.
CStrings(mem) ==
  LET k == FirstIn(mem, {NUL, UNINIT}, 1)
      known == SubSeq(mem, 1, k - 1)
  IN IF k <= Len(mem) /\ mem[k] = NUL THEN {known}
     ELSE {known \o g : g \in Garbage}

\* strlen/strdup of a buffer whose string is terminated inside it.
Text(mem) == SubSeq(mem, 1, FirstIn(mem, {NUL, UNINIT}, 1) - 1)

-----------------------------------------------------------------------------
(* Bounds of the model *)

\* Bytes of terminal input one run of the shell reads (end of input aside).
MaxInput == 8

\* Characters the user types, besides the keys with a meaning.
Typed == {"c"}

\* No bound on the input bytes: the line's length is bounded instead.
Unlimited == 0 - 1

\* Bytes that follow an ESC.
SeqBytes == {"[", "A", "B", NL, EOF}

\* Contents of .shell_history when the shell starts.
NoFile == "NoFile"
HistFiles ==
  { NoFile,
    <<"l","s",NL,"p","w","d",NL>>,
    <<"c","d",NL,NL,"e","x","i","t",NL>>,
    <<"h","i","s","t","o","r","y">> }

\* Listings of the working directory, in readdir order.
Dirs ==
  { NoDir,
    << <<".">>, <<".",".">>, <<"c","x">> >>,
    << <<".">>, <<".",".">>, <<"c","a">>, <<"c","b">> >> }

-----------------------------------------------------------------------------
(* State *)

VARIABLES
  pc,           \* where the shell is: start, prompt, getc, seq0, seq1, split,
                \* execute, wait, save, done, exit_failure, undefined
  hist,         \* shell_history->commands[0 .. count-1]
  histfile,     \* contents of .shell_history, or NoFile
  dir,          \* entries of the working directory, or NoDir
  termios,      \* mode of the terminal: cooked or raw
  orig_termios, \* the saved mode
  buffer,       \* lsh_read_line: cells of buffer
  bufsize,      \* lsh_read_line: bufsize
  position,     \* lsh_read_line: position
  history_pos,  \* lsh_read_line: history_pos
  seq0,         \* lsh_read_line: seq[0]
  eof,          \* stdin has reached end of input
  line,         \* lsh_loop: line
  args,         \* lsh_loop: args
  status,       \* lsh_loop: status
  child,        \* lsh_launch: the forked process
  fuel,         \* input bytes the run may still read, or Unlimited
  appended,     \* auxiliary: every command handed to history_add so far
  raw_entries,  \* auxiliary: enable_raw_mode calls of the current lsh_read_line
  edits,        \* auxiliary: the line as the keys of this lsh_read_line make it
  saved,        \* auxiliary: the store history_save wrote to the file, if it did
  partial,      \* auxiliary: the argument of the get_completions call of the last key
  completions   \* auxiliary: what that call returned

vars == <<pc, hist, histfile, dir, termios, orig_termios, buffer, bufsize,
          position, history_pos, seq0, eof, line, args, status, child, fuel,
          appended, saved, raw_entries, edits, partial, completions>>

store == <<hist, appended>>
NotSaved == "NotSaved"
env == <<histfile, dir>>
tty == <<termios, orig_termios>>
editor == <<buffer, bufsize, position, history_pos>>
input == <<eof, fuel>>
loopv == <<line, args, status, child>>
ghostv == <<saved, raw_entries>>
compl == <<partial, completions>>

count == Len(hist)

InitWith(files, dirs, n) ==
  /\ pc = "start"
  /\ hist = <<>>
  /\ histfile \in files
  /\ dir \in dirs
  /\ termios = "cooked"
  /\ orig_termios = "zero"
  /\ buffer = <<>>
  /\ bufsize = 0
  /\ position = 0
  /\ history_pos = 0
  /\ seq0 = NUL
  /\ eof = FALSE
  /\ line = <<>>
  /\ args = <<>>
  /\ status = 1
  /\ child = "none"
  /\ fuel = n
  /\ appended = <<>>
  /\ saved = NotSaved
  /\ raw_entries = 0
  /\ edits = <<>>
  /\ partial = <<>>
  /\ completions = <<>>

Init == InitWith(HistFiles, Dirs, MaxInput)

-----------------------------------------------------------------------------
(* main: main.c 617-632 *)

\* history_init and history_load, then lsh_loop is entered.
Main_Load ==
  /\ pc = "start"
  /\ hist' = (IF histfile = NoFile THEN <<>> ELSE history_load(<<>>, histfile))
  /\ appended' = (IF histfile = NoFile THEN <<>> ELSE LoadLines(histfile, 1))
  /\ pc' = "prompt"
  /\ UNCHANGED <<env, tty, editor, seq0, input, loopv, ghostv, edits, compl>>

\* history_save after the loop; fopen may fail, and the file is left alone.
Main_Save ==
  /\ pc = "save"
  /\ \/ histfile' = history_save(hist) /\ saved' = hist
     \/ histfile' = histfile /\ saved' = NotSaved
  /\ pc' = "done"
  /\ UNCHANGED <<store, dir, tty, editor, seq0, input, loopv, raw_entries, edits, compl>>

-----------------------------------------------------------------------------
(* Terminal mode: main.c 50-59 *)

enable_raw_mode ==
  /\ orig_termios' = termios
  /\ termios' = "raw"

disable_raw_mode ==
  /\ termios' = orig_termios
  /\ UNCHANGED orig_termios

-----------------------------------------------------------------------------
(* lsh_read_line: main.c 80-178 *)

\* getchar() returns b.
Getchar(b) ==
  /\ b = EOF \/ (~eof /\ fuel # 0)
  /\ eof' = (b = EOF)
  /\ fuel' = IF b = EOF \/ fuel = Unlimited THEN fuel ELSE fuel - 1

\* The completions of a Tab are freed before the next key is read.
Forget == partial' = <<>> /\ completions' = <<>>

\* Lines 82-93: the buffer is allocated and raw mode entered.
ReadLine_Begin ==
  /\ pc = "prompt"
  /\ buffer' = Cells(LSH_RL_BUFSIZE)
  /\ bufsize' = LSH_RL_BUFSIZE
  /\ position' = 0
  /\ history_pos' = count
  /\ enable_raw_mode
  /\ raw_entries' = 1
  /\ edits' = <<>>
  /\ pc' = "getc"
  /\ UNCHANGED <<store, env, seq0, input, loopv, saved, compl>>

\* Lines 88-91: malloc returned NULL.
ReadLine_AllocFail ==
  /\ pc = "prompt"
  /\ pc' = "exit_failure"
  /\ raw_entries' = 0
  /\ UNCHANGED <<store, env, tty, editor, seq0, input, loopv, saved, edits, compl>>

\* Lines 99-101: ESC.
Key_Esc ==
  /\ pc = "getc"
  /\ Getchar(ESC)
  /\ pc' = "seq0"
  /\ Forget
  /\ UNCHANGED <<store, env, tty, editor, seq0, loopv, ghostv, edits>>

\* Line 101: seq[0].
Esc_Seq0 ==
  /\ pc = "seq0"
  /\ \E b \in SeqBytes :
       /\ Getchar(b)
       /\ seq0' = b
  /\ pc' = "seq1"
  /\ UNCHANGED <<store, env, tty, editor, loopv, ghostv, edits, compl>>

\* The string a recall or a completion copies does not fit the buffer.
TooLong(s) == Len(s) + 1 > bufsize

\* buffer[idx] lies outside the allocation: the store is undefined.
Outside(idx) == idx >= bufsize

\* strcpy(buffer, entry); position = strlen(buffer), with history_pos moved
\* to h.  A copy that runs over the end of the buffer is undefined.
Recall(h) ==
  /\ history_pos' = h
  /\ buffer' = strcpy(buffer, hist[h + 1])
  /\ bufsize' = bufsize
  /\ edits' = hist[h + 1]
  /\ IF TooLong(hist[h + 1])
     THEN pc' = "undefined" /\ position' = position
     ELSE pc' = "getc" /\ position' = Len(hist[h + 1])

UpGuard == history_pos > 0

\* Lines 105-113.
Esc_Up ==
  /\ pc = "seq1"
  /\ seq0 = "["
  /\ Getchar("A")
  /\ IF UpGuard
     THEN Recall(history_pos - 1)
     ELSE pc' = "getc" /\ UNCHANGED <<editor, edits>>
  /\ seq0' = NUL
  /\ UNCHANGED <<store, env, tty, loopv, ghostv, compl>>

DownGuard == history_pos < count - 1

\* Lines 114-128: the second branch repeats the first one's condition.
Esc_Down ==
  /\ pc = "seq1"
  /\ seq0 = "["
  /\ Getchar("B")
  /\ IF DownGuard
     THEN Recall(history_pos + 1)
     ELSE IF DownGuard
          THEN /\ buffer' = WriteAt(buffer, 0, NUL)
               /\ position' = 0
               /\ edits' = <<>>
               /\ pc' = "getc"
               /\ UNCHANGED <<bufsize, history_pos>>
          ELSE pc' = "getc" /\ UNCHANGED <<editor, edits>>
  /\ seq0' = NUL
  /\ UNCHANGED <<store, env, tty, loopv, ghostv, compl>>

Esc_Other_clears ==
  /\ pc = "seq1"
  /\ \E b \in SeqBytes :
       /\ ~(seq0 = "[" /\ b \in {"A", "B"})
       /\ Getchar(b)
  /\ pc' = "getc"
  /\ seq0' = NUL
  /\ position' = 0
  /\ UNCHANGED <<store, env, tty, buffer, bufsize, history_pos, loopv, ghostv,
                 edits, compl>>

\* Lines 104-130: any other pair of bytes.
Esc_Other ==
  /\ pc = "seq1"
  /\ \E b \in SeqBytes :
       /\ ~(seq0 = "[" /\ b \in {"A", "B"})
       /\ Getchar(b)
  /\ pc' = "getc"
  /\ seq0' = NUL
  /\ UNCHANGED <<store, env, tty, editor, loopv, ghostv, edits, compl>>

Submits_always(pos) == TRUE

\* Line 136: the line is handed to history_add.
Submits(pos) == pos > 0

\* Lines 132-140.
Key_Newline ==
  /\ pc = "getc"
  /\ Getchar(NL)
  /\ buffer' = WriteAt(buffer, position, NUL)
  /\ disable_raw_mode
  /\ IF Submits(position)
     THEN /\ hist' = history_add(hist, Text(buffer'))
          /\ appended' = Append(appended, Text(buffer'))
     ELSE UNCHANGED <<hist, appended>>
  /\ line' = Text(buffer')
  /\ pc' = (IF Outside(position) THEN "undefined" ELSE "split")
  /\ Forget
  /\ UNCHANGED <<env, bufsize, position, history_pos, seq0, args, status, child,
                 ghostv, edits>>

\* Lines 142-151, with get_completions (572-607) reading the working
\* directory.  readdir on no directory stream, the sentinel stored outside
\* completions, and a copy over the end of the buffer are undefined.
Key_Tab ==
  /\ pc = "getc"
  /\ Getchar(TAB)
  /\ \E p \in CStrings(buffer) :
       /\ partial' = p
       /\ IF dir = NoDir
          THEN /\ completions' = <<>>
               /\ pc' = "undefined"
               /\ UNCHANGED <<editor, edits>>
          ELSE LET cands == get_completions(p, dir)
               IN /\ completions' = cands
                  /\ IF SentinelOutOfBounds(cands)
                     THEN pc' = "undefined" /\ UNCHANGED <<editor, edits>>
                     ELSE IF cands # <<>>
                          THEN /\ buffer' = strcpy(buffer, cands[1])
                               /\ edits' = cands[1]
                               /\ UNCHANGED <<bufsize, history_pos>>
                               /\ IF TooLong(cands[1])
                                  THEN pc' = "undefined" /\ position' = position
                                  ELSE pc' = "getc" /\ position' = Len(cands[1])
                          ELSE pc' = "getc" /\ UNCHANGED <<editor, edits>>
  /\ UNCHANGED <<store, env, tty, seq0, loopv, ghostv>>

\* Lines 153-159.
Key_Backspace ==
  /\ pc = "getc"
  /\ Getchar(DEL)
  /\ position' = (IF position > 0 THEN position - 1 ELSE position)
  /\ edits' = (IF edits # <<>> THEN SubSeq(edits, 1, Len(edits) - 1) ELSE edits)
  /\ Forget
  /\ UNCHANGED <<pc, store, env, tty, buffer, bufsize, history_pos, seq0, loopv,
                 ghostv>>

\* Line 169.
NeedsGrowth(pos) == pos >= bufsize

\* Lines 161-176: a printable character is stored and the buffer grown when
\* position has reached bufsize.
Key_InsertOf(K) ==
  /\ pc = "getc"
  /\ \E c \in K :
       /\ Ord(c) \notin {27, 10, 9, 127}
       /\ Ord(c) >= 32
       /\ Getchar(c)
       /\ position' = position + 1
       /\ IF NeedsGrowth(position + 1)
          THEN /\ bufsize' = bufsize + LSH_RL_BUFSIZE
               /\ buffer' = realloc(WriteAt(buffer, position, c), bufsize')
          ELSE /\ bufsize' = bufsize
               /\ buffer' = WriteAt(buffer, position, c)
       /\ edits' = Append(edits, c)
  /\ pc' = (IF Outside(position) THEN "undefined" ELSE pc)
  /\ Forget
  /\ UNCHANGED <<store, env, tty, history_pos, seq0, loopv, ghostv>>

Key_Insert == Key_InsertOf(Typed)

\* Lines 161-175: the character is stored, then realloc returns NULL.
Key_InsertOf_ReallocFail(K) ==
  /\ pc = "getc"
  /\ \E c \in K :
       /\ Ord(c) \notin {27, 10, 9, 127}
       /\ Ord(c) >= 32
       /\ Getchar(c)
       /\ NeedsGrowth(position + 1)
       /\ position' = position + 1
       /\ buffer' = WriteAt(buffer, position, c)
       /\ edits' = Append(edits, c)
  /\ pc' = "exit_failure"
  /\ Forget
  /\ UNCHANGED <<store, env, tty, bufsize, history_pos, seq0, loopv, ghostv>>

Key_Insert_ReallocFail == Key_InsertOf_ReallocFail(Typed)

\* A byte none of the tests of lines 99-161 accepts, end of input included.
Key_Ignored ==
  /\ pc = "getc"
  /\ \E c \in {CR, EOF} :
       /\ Ord(c) \notin {27, 10, 9, 127}
       /\ ~(Ord(c) >= 32)
       /\ Getchar(c)
  /\ IF NeedsGrowth(position)
     THEN /\ bufsize' = bufsize + LSH_RL_BUFSIZE
          /\ buffer' = realloc(buffer, bufsize')
     ELSE UNCHANGED <<buffer, bufsize>>
  /\ Forget
  /\ UNCHANGED <<pc, store, env, tty, position, history_pos, seq0, loopv,
                 ghostv, edits>>

-----------------------------------------------------------------------------
(* lsh_loop, lsh_split_line, lsh_execute, lsh_launch: main.c 61-76, 186-256, 490-505 *)

\* Line 70.
Split ==
  /\ pc = "split"
  /\ args' = lsh_split_line(line).tokens
  /\ pc' = "execute"
  /\ UNCHANGED <<store, env, tty, editor, seq0, input, line, status, child,
                 ghostv, edits, compl>>

\* Lines 192-195: malloc returned NULL.
Split_AllocFail ==
  /\ pc = "split"
  /\ pc' = "exit_failure"
  /\ UNCHANGED <<store, env, tty, editor, seq0, input, loopv, ghostv, edits, compl>>

\* Where the loop goes with the status lsh_execute returned (line 75).
AfterStatus(st) == IF st # 0 THEN "prompt" ELSE "save"

\* Lines 71-75: status is set, line and args are freed (the locals of
\* lsh_read_line are gone with them), and the loop goes on or ends.
LoopEnd(st) ==
  /\ status' = st
  /\ pc' = AfterStatus(st)
  /\ line' = <<>>
  /\ args' = <<>>
  /\ buffer' = <<>>
  /\ bufsize' = 0
  /\ position' = 0
  /\ history_pos' = 0
  /\ edits' = <<>>

\* Lines 494-497.
Exec_Empty ==
  /\ pc = "execute"
  /\ args = <<>>
  /\ LoopEnd(1)
  /\ UNCHANGED <<store, env, tty, seq0, input, child, ghostv, compl>>

\* Builtins that may change what the working directory lists:
\* cd, touch, echo (with > file) and rm.
ChangesDir(i) ==
  builtin_str[i] \in { <<"c","d">>, <<"t","o","u","c","h">>, <<"e","c","h","o">>, <<"r","m">> }

\* Lines 499-503.
Exec_Builtin ==
  /\ pc = "execute"
  /\ args # <<>>
  /\ BuiltinIndex(args) # 0
  /\ LoopEnd(BuiltinStatus(BuiltinIndex(args)))
  /\ dir' \in (IF ChangesDir(BuiltinIndex(args)) /\ Len(args) > 1 THEN Dirs ELSE {dir})
  /\ UNCHANGED <<store, histfile, tty, seq0, input, child, ghostv, compl>>

\* Lines 233, 244-247, 255: fork failed.
Launch_ForkFail ==
  /\ pc = "execute"
  /\ args # <<>>
  /\ BuiltinIndex(args) = 0
  /\ LoopEnd(1)
  /\ UNCHANGED <<store, env, tty, seq0, input, child, ghostv, compl>>

\* Lines 233, 248-253: the parent starts waiting for the child.
Launch_Fork ==
  /\ pc = "execute"
  /\ args # <<>>
  /\ BuiltinIndex(args) = 0
  /\ child' = "forked"
  /\ pc' = "wait"
  /\ UNCHANGED <<store, env, tty, editor, seq0, input, line, args, status,
                 ghostv, edits, compl>>

Child_ExecFail_returns ==
  /\ child = "forked"
  /\ child' = "running"
  /\ UNCHANGED <<pc, store, env, tty, editor, seq0, input, line, args, status,
                 ghostv, edits, compl>>

\* Lines 239-242: execvp failed; the child reports it and exits.
Child_ExecFail ==
  /\ child = "forked"
  /\ child' = "exited"
  /\ UNCHANGED <<pc, store, env, tty, editor, seq0, input, line, args, status,
                 ghostv, edits, compl>>

\* Line 239: execvp replaced the child's image.
Child_Exec ==
  /\ child = "forked"
  /\ child' = "running"
  /\ UNCHANGED <<pc, store, env, tty, editor, seq0, input, line, args, status,
                 ghostv, edits, compl>>

\* The program runs: it is stopped, exits or is killed by a signal.
Child_Run ==
  /\ child = "running"
  /\ child' \in {"stopped", "exited", "signaled"}
  /\ dir' \in Dirs
  /\ UNCHANGED <<pc, store, histfile, tty, editor, seq0, input, line, args, status,
                 ghostv, edits, compl>>

\* A stopped program is continued or killed.
Child_Cont ==
  /\ child = "stopped"
  /\ child' \in {"running", "signaled"}
  /\ UNCHANGED <<pc, store, env, tty, editor, seq0, input, line, args, status,
                 ghostv, edits, compl>>

WaitOver_stopped == child \in {"stopped", "exited", "signaled"}

\* The status waitpid reports ends the loop of lines 250-253.
WaitOver == child \in {"exited", "signaled"}

\* Lines 250-255: waitpid reported the child's end; lsh_launch returns 1.
Launch_Wait ==
  /\ pc = "wait"
  /\ WaitOver
  /\ child' = "none"
  /\ LoopEnd(1)
  /\ UNCHANGED <<store, env, tty, seq0, input, ghostv, compl>>

-----------------------------------------------------------------------------
(* The shell *)

Next ==
  \/ Main_Load
  \/ Main_Save
  \/ ReadLine_Begin
  \/ ReadLine_AllocFail
  \/ Key_Esc
  \/ Esc_Seq0
  \/ Esc_Up
  \/ Esc_Down
  \/ Esc_Other
  \/ Key_Newline
  \/ Key_Tab
  \/ Key_Backspace
  \/ Key_Insert
  \/ Key_Insert_ReallocFail
  \/ Key_Ignored
  \/ Split
  \/ Split_AllocFail
  \/ Exec_Empty
  \/ Exec_Builtin
  \/ Launch_ForkFail
  \/ Launch_Fork
  \/ Child_ExecFail
  \/ Child_Exec
  \/ Child_Run
  \/ Child_Cont
  \/ Launch_Wait

Spec == Init /\ [][Next]_vars

-----------------------------------------------------------------------------
(* Typing: lsh_read_line fed printable characters, backspaces and a newline *)

\* Longest line typed, and the length up to which both characters are typed.
MaxLine == 17
MixedLen == 9

TypedAt(pos) ==
  IF pos < MixedLen THEN {"a", "b"} ELSE IF pos < MaxLine THEN {"a"} ELSE {}

InitTyping == InitWith({NoFile}, {<<>>}, Unlimited)

Typing_Insert == Key_InsertOf(TypedAt(position))

Typing_Insert_ReallocFail == Key_InsertOf_ReallocFail(TypedAt(position))

NextTyping ==
  \/ Main_Load
  \/ ReadLine_Begin
  \/ Typing_Insert
  \/ Typing_Insert_ReallocFail
  \/ Key_Backspace
  \/ Key_Newline

SpecTyping == InitTyping /\ [][NextTyping]_vars

-----------------------------------------------------------------------------
(* Persistence: history_save at the end of one run, history_load at the
   start of the next *)

\* Entries of the store when the shell leaves its loop: lines typed,
\* recalled or completed, and the empty entries a load can bring in.
SavedEntries ==
  { <<>>,
    <<"c">>,
    <<"l","s">>,
    <<"c","d"," ","c">>,
    <<"e","x","i","t">>,
    <<"c","c","c","c","c">>,
    <<"c","c","c","c","c","c">>,
    <<"h","i","s","t","o","r","y">>,
    <<"h","i","s","t","o","r","y","c">>,
    <<"c","c","c","c","c","c","c","c","c">> }

\* The loop ends on a line whose first token is exit, and that line is the
\* store's newest entry.
SavedHistories ==
  { << <<"e","x","i","t">> >> } \cup { <<e, <<"e","x","i","t">> >> : e \in SavedEntries }

InitPersist ==
  /\ pc = "save"
  /\ hist \in SavedHistories
  /\ histfile \in HistFiles
  /\ dir = <<>>
  /\ termios = "cooked"
  /\ orig_termios = "cooked"
  /\ buffer = <<>>
  /\ bufsize = 0
  /\ position = 0
  /\ history_pos = 0
  /\ seq0 = NUL
  /\ eof = FALSE
  /\ line = <<>>
  /\ args = <<>>
  /\ status = 0
  /\ child = "none"
  /\ fuel = 0
  /\ appended = hist
  /\ saved = NotSaved
  /\ raw_entries = 1
  /\ edits = <<>>
  /\ partial = <<>>
  /\ completions = <<>>

\* The shell is started again: main.c 617-619, a fresh store.
Restart ==
  /\ pc = "done"
  /\ pc' = "start"
  /\ hist' = <<>>
  /\ appended' = <<>>
  /\ status' = 1
  /\ raw_entries' = 0
  /\ orig_termios' = "zero"
  /\ UNCHANGED <<env, termios, editor, seq0, input, line, args, child, saved,
                 edits, compl>>

NextPersist ==
  \/ Main_Save
  \/ Restart
  \/ Main_Load

SpecPersist == InitPersist /\ [][NextPersist]_vars

-----------------------------------------------------------------------------
(* Completion: get_completions on a partial and a directory *)

\* Entries a directory holds at most, and their names.
MaxDirEntries == 5
DirNames ==
  { <<".">>, <<".",".">>, <<"c","a">>, <<"c","b">>, <<"c","d">>, <<"l","x">> }

\* Listings of up to MaxDirEntries entries, no name twice.
Listings ==
  { d \in UNION { [1..n -> DirNames] : n \in 0..MaxDirEntries } :
      \A i, j \in 1..Len(d) : d[i] = d[j] => i = j }

Partials == { <<>>, <<"c">>, <<"c","l">>, <<".">>, <<"l">>, <<"x">> }

InitComplete ==
  /\ pc = "call"
  /\ partial \in Partials
  /\ dir \in Listings
  /\ completions = <<>>
  /\ hist = <<>>
  /\ histfile = NoFile
  /\ termios = "cooked"
  /\ orig_termios = "zero"
  /\ buffer = <<>>
  /\ bufsize = 0
  /\ position = 0
  /\ history_pos = 0
  /\ seq0 = NUL
  /\ eof = FALSE
  /\ line = <<>>
  /\ args = <<>>
  /\ status = 1
  /\ child = "none"
  /\ fuel = 0
  /\ appended = <<>>
  /\ saved = NotSaved
  /\ raw_entries = 0
  /\ edits = <<>>

\* completions = get_completions(partial)
Complete ==
  /\ pc = "call"
  /\ completions' = get_completions(partial, dir)
  /\ pc' = "return"
  /\ UNCHANGED <<store, env, tty, editor, seq0, input, loopv, ghostv, edits, partial>>

NextComplete == Complete

SpecComplete == InitComplete /\ [][NextComplete]_vars

-----------------------------------------------------------------------------
(* Tokenizing: lsh_split_line on a line lsh_read_line returned *)

\* Length up to which every line over SplitChars is split, and the largest
\* number of tokens of the longer lines.
MaxSplitLen == 5
MaxTokens == 33

SplitChars == {"a", "b", " ", TAB, CR}

RECURSIVE Repeat(_, _)
Repeat(unit, n) == IF n = 0 THEN <<>> ELSE unit \o Repeat(unit, n - 1)

\* Lines the loop hands over: typed, recalled from a history file (which may
\* hold tabs, carriage returns and bells) or completed; never a newline.
SplitLines ==
  UNION { [1..n -> SplitChars] : n \in 0..MaxSplitLen }
    \cup { lead \o Repeat(<<"a">> \o sep, n) \o tail :
             n \in 1..MaxTokens,
             sep \in { <<" ">>, <<TAB, " ">>, <<BEL>> },
             lead \in { <<>>, <<" ">> },
             tail \in { <<>>, <<"b", "b">> } }

InitSplit ==
  /\ pc = "split"
  /\ line \in SplitLines
  /\ hist = IF line = <<>> THEN <<>> ELSE <<line>>
  /\ appended = hist
  /\ histfile = NoFile
  /\ dir = <<>>
  /\ termios = "cooked"
  /\ orig_termios = "cooked"
  /\ buffer = Append(line, NUL)
  /\ bufsize = LSH_RL_BUFSIZE * ((Len(line) \div LSH_RL_BUFSIZE) + 1)
  /\ position = Len(line)
  /\ history_pos = 0
  /\ seq0 = NUL
  /\ eof = FALSE
  /\ args = <<>>
  /\ status = 1
  /\ child = "none"
  /\ fuel = 0
  /\ saved = NotSaved
  /\ raw_entries = 1
  /\ edits = line
  /\ partial = <<>>
  /\ completions = <<>>

\* Lines 203-209: the token array is full and realloc returns NULL.
Split_ReallocFail ==
  /\ pc = "split"
  /\ Len(lsh_split_line(line).tokens) >= LSH_TOK_BUFSIZE
  /\ pc' = "exit_failure"
  /\ UNCHANGED <<store, env, tty, editor, seq0, input, loopv, ghostv, edits, compl>>

NextSplit ==
  \/ Split
  \/ Split_AllocFail
  \/ Split_ReallocFail

SpecSplit == InitSplit /\ [][NextSplit]_vars

-----------------------------------------------------------------------------
(* Properties *)

\* The last n elements of s.
LastN(s, n) == IF Len(s) <= n THEN s ELSE SubSeq(s, Len(s) - n + 1, Len(s))

\* The text being edited: the cells before the insertion point.
EditText(mem, pos) == SubSeq(mem, 1, pos)

InReadLine == pc \in {"getc", "seq0", "seq1"}

\* C1: after any sequence of history appends (from history_load, from line
\* submission) the count never exceeds HISTORY_MAX, and the store holds
\* exactly the last HISTORY_MAX appended lines in the order they were
\* appended: an append at capacity evicts the single oldest entry.
C1_HistoryBounded ==
  /\ count <= HISTORY_MAX
  /\ hist = LastN(appended, HISTORY_MAX)

\* A line has been submitted into a store that was full, after a load that
\* itself ran over the capacity.
C1_Witness ==
  /\ pc = "split"
  /\ line # <<>>
  /\ Len(appended) > HISTORY_MAX + 1
  /\ hist[count] = line

\* C2: in lsh_read_line the edit buffer's text, terminator included, never
\* reaches past the buffer's capacity: no cell outside the allocation is
\* written and the insertion point stays within it, whatever the keys.
C2_WithinCapacity ==
  /\ Len(buffer) <= bufsize
  /\ position <= bufsize

\* C3: Down with the cursor not at the newest entry moves it one step newer
\* and replaces the buffer with that entry; Down with the cursor at the
\* newest entry, or at count, clears the buffer to the empty line with
\* insertion point 0.
C3_Down ==
  [][Esc_Down =>
       IF history_pos < count - 1
       THEN /\ history_pos' = history_pos + 1
            /\ pc' = "getc"
            /\ position' = Len(hist[history_pos + 2])
            /\ EditText(buffer', position') = hist[history_pos + 2]
       ELSE /\ position' = 0
            /\ pc' = "getc"]_vars

\* C4: the history cursor starts at count and stays within [0, count]; an
\* Up with cursor h > 0 sets the cursor to h-1, makes the buffer text the
\* entry h-1 and the insertion point that entry's length; an Up at cursor 0
\* changes neither cursor, buffer nor insertion point.
C4_Up ==
  /\ [](history_pos \in 0..count)
  /\ [][ReadLine_Begin => history_pos' = count]_vars
  /\ [][Esc_Up =>
          IF history_pos > 0
          THEN /\ history_pos' = history_pos - 1
               /\ pc' = "getc"
               /\ Len(buffer') <= bufsize'
               /\ position' = Len(hist[history_pos])
               /\ EditText(buffer', position') = hist[history_pos]
          ELSE UNCHANGED <<history_pos, buffer, position>>]_vars

\* C5: each lsh_read_line enters raw mode exactly once, and the terminal is
\* in cooked mode whenever control has left lsh_read_line, by its return or
\* by the exit on an allocation failure.
C5_RawModeRestored ==
  /\ InReadLine => (raw_entries = 1 /\ termios = "raw")
  /\ pc \in {"prompt", "split", "execute", "wait", "save", "done", "exit_failure"}
       => termios = "cooked"


\* C6: for every input of printable characters and backspaces followed by a
\* newline, of any length, the line lsh_read_line returns is exactly the
\* sequence obtained by applying the inserts and backspaces in order; no
\* earlier character is lost or changed when the buffer grows.
C6_LineIsEdits == pc = "split" => line = edits

\* A line longer than the initial capacity, holding both characters, is
\* returned from a buffer that has grown and still holds, behind the line,
\* a character that a backspace erased.
C6_Witness ==
  /\ pc = "split"
  /\ Len(line) > LSH_RL_BUFSIZE
  /\ bufsize > LSH_RL_BUFSIZE
  /\ \E i, j \in 1..Len(line) : line[i] = "a" /\ line[j] = "b" /\ j > i
  /\ \E k \in (Len(line) + 2)..Len(buffer) : IsChar(buffer[k])

\* C7: history_save followed by history_load into a fresh store reproduces
\* the saved store exactly, entry by entry, for every store the shell can
\* hold, long entries included.
C7_RoundTrip == (pc = "prompt" /\ saved # NotSaved) => hist = saved

\* C8: appending an empty string never changes the store: on every path that
\* appends, a blank line read by history_load included, the store is what
\* the non-empty appends alone make it.
C8_EmptyAppendNoOp ==
  hist = LastN(SelectSeq(appended, LAMBDA l : l # <<>>), HISTORY_MAX)

\* Number of places of sequence s that hold x.
Occ(s, x) == Cardinality({i \in DOMAIN s : s[i] = x})

\* C9: every candidate get_completions(p) returns starts with p, and every
\* builtin name and every directory entry that starts with p is in the
\* result exactly once.
C9_Completions ==
  pc = "return" =>
    /\ \A i \in DOMAIN completions : PrefixMatch(partial, completions[i])
    /\ \A n \in {builtin_str[i] : i \in DOMAIN builtin_str} \cup {dir[i] : i \in DOMAIN dir} :
         PrefixMatch(partial, n) =>
           Occ(completions, n) = Occ(builtin_str, n) + Occ(dir, n)

Exit == <<"e","x","i","t">>

\* C10: lsh_execute signals stop exactly when the first token is exit; every
\* other builtin and every launch, whatever comes of it, signals continue;
\* an empty token list signals continue with no builtin run and no process
\* spawned; so the loop ends only after an exit line.
C10_StopOnlyOnExit ==
  [][LET isExit == args # <<>> /\ args[1] = Exit
         leaves == pc \in {"execute", "wait"} /\ pc' \notin {"execute", "wait"}
     IN /\ (pc' = "save" /\ pc # "save") =>
             (pc = "execute" /\ isExit /\ status' = 0)
        /\ (leaves /\ isExit) => pc' = "save"
        /\ (leaves /\ ~isExit) =>
             (pc' = "prompt" /\ status' = 1)
        /\ (leaves /\ args = <<>>) =>
             (pc' = "prompt" /\ child' = "none" /\ dir' = dir)]_vars

\* The exit line has been dispatched and the loop left.
C10_Witness == pc = "save" /\ status = 0 /\ hist[count] = Exit

\* C11: at most one command is in progress: a child exists only while the
\* parent waits in lsh_launch; the parent leaves the wait only when the child
\* has exited or been killed by a signal (a stopped child keeps it waiting),
\* it then goes back to the prompt with no child left, and a terminated child
\* always lets it do so.
C11_OneCommand ==
  /\ [](child # "none" => pc = "wait")
  /\ []((pc = "wait" /\ child \in {"exited", "signaled"}) => ENABLED Launch_Wait)
  /\ [][(pc = "wait" /\ pc' # "wait") =>
          /\ child \in {"exited", "signaled"}
          /\ child' = "none"
          /\ pc' = "prompt"]_vars
  /\ [][(pc = "wait" /\ child = "stopped") => pc' = "wait"]_vars

\* The parent is waiting on a child that has been stopped.
C11_Witness == pc = "wait" /\ child = "stopped" /\ args # <<>>

\* C12: a spawn failure leaves the shell running.  A failed fork sends the
\* loop back to the prompt with status continue and no child; a child whose
\* execvp failed exits at once, touching nothing of the shell, and the
\* parent waiting on it can then always return, to the prompt with status
\* continue; history store and history file are unchanged throughout.
C12_SpawnFailure ==
  /\ [][Launch_ForkFail =>
          /\ pc' = "prompt"
          /\ status' = 1
          /\ child' = "none"
          /\ UNCHANGED <<hist, histfile, termios>>]_vars
  /\ [][Child_ExecFail =>
          /\ child' = "exited"
          /\ UNCHANGED <<pc, hist, histfile, dir, termios, status>>]_vars
  /\ []((pc = "wait" /\ child = "exited") => ENABLED Launch_Wait)
  /\ [][(pc = "wait" /\ child = "exited" /\ pc' # "wait") =>
          /\ pc' = "prompt"
          /\ status' = 1
          /\ child' = "none"
          /\ UNCHANGED <<hist, histfile>>]_vars

\* The line c, no builtin, was submitted and launched, and the loop is back
\* at the prompt with the line still the newest history entry.
C12_Witness ==
  /\ pc = "prompt"
  /\ status = 1
  /\ child = "none"
  /\ raw_entries = 1
  /\ count > 0
  /\ hist[count] = <<"c">>

\* C13: on newline the finished line becomes the newest history entry if and
\* only if it is not empty, the older entries keeping their order, and an
\* empty line leaves the history unchanged; this is done before the line is
\* returned, so a line being tokenized or dispatched (history, exit) is
\* already the newest entry.
C13_AppendBeforeDispatch ==
  /\ [][Key_Newline =>
          /\ pc' = "split"
          /\ IF line' # <<>>
             THEN /\ count' > 0
                  /\ hist'[count'] = line'
                  /\ SubSeq(hist', 1, count' - 1) = LastN(hist, count' - 1)
                  /\ appended' = Append(appended, line')
             ELSE UNCHANGED <<hist, appended>>]_vars
  /\ []((pc \in {"split", "execute", "wait"} /\ line # <<>>) =>
          (count > 0 /\ hist[count] = line))

\* The history builtin is being dispatched and its line is already the
\* newest entry of a full store.
C13_Witness ==
  /\ pc = "execute"
  /\ args = << <<"h","i","s","t","o","r","y">> >>
  /\ count = HISTORY_MAX
  /\ hist[count] = line

\* C14: on Tab the partial handed to get_completions is exactly the text
\* being edited, the characters before the insertion point; characters
\* erased by backspace or lying behind the insertion point are not in it.
C14_PartialIsEditText ==
  [][Key_Tab => partial' = EditText(buffer, position)]_vars

\* The candidates for partial p in a directory listing d: the builtin names
\* starting with p in table order, then the entries of d starting with p in
\* enumeration order.
Candidates(p, d) ==
  SelectSeq(builtin_str, LAMBDA n : PrefixMatch(p, n))
    \o SelectSeq(IF d = NoDir THEN <<>> ELSE d, LAMBDA n : PrefixMatch(p, n))

\* C15: on Tab, if there are candidates for the partial handed over, the
\* buffer text becomes the first of them, builtin matches before directory
\* matches, and the insertion point its length; if there are none, buffer,
\* insertion point and history cursor are unchanged; either way the editor
\* goes on reading keys.
C15_FirstCandidate ==
  [][Key_Tab =>
       /\ pc' = "getc"
       /\ IF Candidates(partial', dir) # <<>>
          THEN /\ completions' # <<>>
               /\ completions'[1] = Candidates(partial', dir)[1]
               /\ position' = Len(completions'[1])
               /\ EditText(buffer', position') = completions'[1]
               /\ buffer'[position' + 1] = NUL
          ELSE /\ completions' = <<>>
               /\ UNCHANGED <<buffer, position, history_pos>>]_vars

\* C16: an ESC followed by two bytes that are not [A or [B takes exactly
\* those three bytes from the input, one per step, and leaves buffer,
\* insertion point, capacity, history cursor, history store and terminal
\* mode as they were; the editor then reads the next key.
C16_OtherEscapeIgnored ==
  [][(Key_Esc \/ Esc_Seq0 \/ Esc_Other) =>
       /\ UNCHANGED <<buffer, position, bufsize, history_pos, hist, termios>>
       /\ ~eof' => fuel' = fuel - 1
       /\ Key_Esc => pc' = "seq0"
       /\ Esc_Seq0 => pc' = "seq1"
       /\ Esc_Other => pc' = "getc"]_vars

\* After c was typed, ESC and then A, with no [ between them, have been
\* read: whatever byte comes next, the three form no arrow sequence, and
\* the line is as it was.
C16_Witness ==
  /\ pc = "seq1"
  /\ seq0 = "A"
  /\ position = 1
  /\ bufsize = LSH_RL_BUFSIZE
  /\ history_pos = count
  /\ count > 0
  /\ termios = "raw"
  /\ fuel = MaxInput - 3
  /\ EditText(buffer, position) = <<"c">>

\* First index >= i of s where a maximal run of non-delimiters starts, or
\* Len(s)+1.
RECURSIVE RunStart(_, _)
RunStart(s, i) ==
  IF i > Len(s) THEN i
  ELSE IF s[i] \notin LSH_TOK_DELM /\ (i = 1 \/ s[i - 1] \in LSH_TOK_DELM) THEN i
  ELSE RunStart(s, i + 1)

\* The maximal runs of non-delimiter characters of s from index i on, left
\* to right.
RECURSIVE Runs(_, _)
Runs(s, i) ==
  LET a == RunStart(s, i)
  IN IF a > Len(s) THEN <<>>
     ELSE LET b == CHOOSE j \in a..Len(s) :
                     /\ \A k \in a..j : s[k] \notin LSH_TOK_DELM
                     /\ j = Len(s) \/ s[j + 1] \in LSH_TOK_DELM
          IN <<SubSeq(s, a, b)>> \o Runs(s, b + 1)

\* C17: the tokens lsh_split_line returns are exactly the maximal runs of
\* non-delimiter characters of the line, left to right, each non-empty; every
\* token and the sentinel behind the last one are stored inside the token
\* array, however often it has grown; a line of delimiters only yields no
\* token.
C17_SplitRuns ==
  pc = "execute" =>
    /\ args = Runs(line, 1)
    /\ \A i \in DOMAIN args : args[i] # <<>>
    /\ ~lsh_split_line(line).oob
    /\ Len(args) < lsh_split_line(line).bufsize
    /\ (\A i \in DOMAIN line : line[i] \in LSH_TOK_DELM) => args = <<>>

\* A line of more tokens than two growths of the token array hold, with
\* separators of two delimiters, has been split.
C17_Witness ==
  /\ pc = "execute"
  /\ Len(args) > 2 * LSH_TOK_BUFSIZE
  /\ lsh_split_line(line).bufsize = 3 * LSH_TOK_BUFSIZE
  /\ \E i \in 1..(Len(line) - 1) : line[i] = TAB /\ line[i + 1] = " "

\* C18: lsh_read_line returns exactly when a newline is read as a top-level
\* character; every other input value, a newline inside an escape sequence
\* and the end-of-input value included, keeps it in the read loop; so once
\* the input has ended the line-read never ends.
C18_ReturnsOnlyOnNewline ==
  /\ [][(InReadLine /\ pc' = "split") => Key_Newline]_vars
  /\ [][Key_Newline => pc' = "split"]_vars
  /\ [][(InReadLine /\ ~Key_Newline) => pc' \in {"getc", "seq0", "seq1"}]_vars
  /\ [][(InReadLine /\ eof) => (eof' /\ pc' \in {"getc", "seq0", "seq1"})]_vars

\* C19: while a line is edited no key but the terminating newline changes
\* the history store: after Up, Down, Tab, backspace, a printable character
\* or any other byte, every entry and the count are what they were.  The
\* entries live on the heap next to the buffer, so this asks that the step
\* wrote inside the buffer's allocation only: after a write behind its end
\* (pc = "undefined") what the entries hold is no longer known.
C19_HistoryUntouched ==
  [][(InReadLine /\ ~Key_Newline) =>
       (hist' = hist /\ pc' # "undefined")]_vars

\* C20: in get_completions the candidates stored and the sentinel behind
\* them fit the LSH_TOK_BUFSIZE slots of the result, for every partial and
\* every directory.
C20_SentinelFits ==
  pc = "return" => Len(completions) + 1 <= LSH_TOK_BUFSIZE

====
